---- MODULE Spec2Model ----
EXTENDS Integers, Sequences, FiniteSets, TLC

(***************************************************************************)
(* vue-types: prop-type descriptors, the validation engine (validateType), *)
(* the composite builders and the extension registry.                      *)
(*                                                                         *)
(* JavaScript values are records tagged with their kind.  Descriptors are  *)
(* objects with identity: they live in `heap` and are referred to by their *)
(* index.  Validator closures are records naming the closure's code and    *)
(* the variables it captured.                                              *)
(***************************************************************************)

VARIABLES heap, warn, registry, sensibleDefaults, objects, last

vars == <<heap, warn, registry, sensibleDefaults, objects, last>>

(***************************************************************************)
(* Bounds of the model.                                                    *)
(***************************************************************************)
MaxHeap == 2

\* arrays and object literals whose identity is followed
MaxObjects == 3

(***************************************************************************)
(* JavaScript values.                                                      *)
(***************************************************************************)
Undefined == [k |-> "undefined", v |-> ""]
Null == [k |-> "null", v |-> ""]
Num(s) == [k |-> "number", v |-> s]
Str(s) == [k |-> "string", v |-> s]
Bool(b) == [k |-> "boolean", v |-> IF b THEN "true" ELSE "false"]
Sym == [k |-> "symbol", v |-> "s"]
Fn(n) == [k |-> "function", v |-> n]
Inst(c) == [k |-> "instance", v |-> c]
Arr(items) == [k |-> "array", items |-> items]
Obj(props) == [k |-> "object", props |-> props]

\* an array or object literal together with its identity
Located(x, id) ==
  IF x.k = "array" THEN [k |-> "array", items |-> x.items, id |-> id]
  ELSE [k |-> "object", props |-> x.props, id |-> id]

True == Bool(TRUE)
False == Bool(FALSE)

\* ToBoolean: the values `!valid` treats as failures
Truthy(x) ==
  ~ \/ x.k \in {"undefined", "null"}
    \/ x.k = "number" /\ x.v = "0"
    \/ x.k = "string" /\ x.v = ""
    \/ x.k = "boolean" /\ x.v = "false"

\* ToString inside a template literal or Array.prototype.join raises a
\* TypeError for a symbol (join converts every element but null/undefined)
ToStringThrows(x) ==
  \/ x.k = "symbol"
  \/ x.k = "array" /\ \E i \in 1..Len(x.items) : x.items[i].k = "symbol"

NumOfNat(n) ==
  CASE n = 0 -> Num("0")
    [] n = 1 -> Num("1")
    [] n = 2 -> Num("2")
    [] OTHER -> Num("3")

(***************************************************************************)
(* utils                                                                   *)
(***************************************************************************)
isArray(x) == x.k = "array"

isFunction(x) == x.k = "function"

\* is-plain-object: an object literal, not a class instance
isPlainObject(x) == x.k = "object"

\* Number.isInteger
isInteger(x) == x.k = "number" /\ x.v \in {"0", "1", "2", "3", "5"}

\* the name of value.constructor; "null" stands for the null result
getNativeType(x) ==
  CASE x.k \in {"undefined", "null"} -> "null"
    [] x.k = "number" -> "Number"
    [] x.k = "string" -> "String"
    [] x.k = "boolean" -> "Boolean"
    [] x.k = "symbol" -> "Symbol"
    [] x.k = "function" -> "Function"
    [] x.k = "array" -> "Array"
    [] x.k = "object" -> "Object"
    [] x.k = "instance" -> x.v

\* an object literal is its own properties in insertion order
Prop(key, val) == [key |-> key, val |-> val]

\* Object.keys(value)
ObjectKeys(x) == [i \in 1..Len(x.props) |-> x.props[i].key]

SeqHas(s, e) == \E i \in 1..Len(s) : s[i] = e

\* value[key]
GetProp(x, key) ==
  IF \E i \in 1..Len(x.props) : x.props[i].key = key
  THEN x.props[CHOOSE i \in 1..Len(x.props) : x.props[i].key = key].val
  ELSE Undefined

\* a === b; two distinct array or object literals are never identical
StrictEq(a, b) == a.k \notin {"array", "object"} /\ a = b

(***************************************************************************)
(* Types: what a `type` field holds and what validateType takes as its     *)
(* first argument.                                                         *)
(*   none       the object has no own `type` property                      *)
(*   null       null, the unconstrained marker                             *)
(*   undefined  an own `type` property set to undefined                    *)
(*   ctor       a constructor: String, Number, Boolean, Function, Array,   *)
(*              Object, Symbol or a class                                  *)
(*   list       an array of types                                          *)
(*   ref        a plain object: the descriptor heap[r]                     *)
(*   bad        any other value (a string such as 'String')                *)
(***************************************************************************)
NoType == [t |-> "none"]
NullType == [t |-> "null"]
UndefinedType == [t |-> "undefined"]
Ctor(c) == [t |-> "ctor", c |-> c]
TypeList(l) == [t |-> "list", l |-> l]
Ref(r) == [t |-> "ref", r |-> r]
BadType == [t |-> "bad"]

NoValidator == [f |-> "none"]
NoDefault == [d |-> "absent"]

\* the ad-hoc descriptor { type } of part_000:198
BareType(type) ==
  [name |-> "", type |-> type, required |-> FALSE, default |-> NoDefault,
   validator |-> NoValidator, validate |-> "none", loose |-> "none"]

\* what a call returns: ret is the returned value; threw: the call raised;
\* leak: it raised while a validator was running, so `warn` is left pointing
\* at a buffer; out: the number of messages handed to the sink that was
\* installed when the call began; called: the descriptor's validator ran
Result(ret, out) ==
  [ret |-> ret, threw |-> FALSE, leak |-> FALSE, out |-> out, called |-> FALSE]

Thrown(leak, out) ==
  [ret |-> Undefined, threw |-> TRUE, leak |-> leak, out |-> out, called |-> FALSE]

Msg == Str("msg")
EmptyStr == Str("")

\* user-supplied predicates
\*   isString  (val) => typeof val === 'string'
\*   length    (val) => val.length
ApplyPred(p, x) ==
  CASE p = "isString" -> Result(Bool(x.k = "string"), 0)
    [] p = "length" ->
         CASE x.k \in {"undefined", "null"} -> Thrown(FALSE, 0)
           [] x.k = "string" -> Result(NumOfNat(IF x.v = "" THEN 0 ELSE 1), 0)
           [] x.k = "array" -> Result(NumOfNat(Len(x.items)), 0)
           [] x.k = "function" -> Result(Num("0"), 0)
           [] OTHER -> Result(Undefined, 0)

\* the single-type branch of the native check, part_000:219-234
NativeCheck(c, x) ==
  CASE c = "Array" -> isArray(x)
    [] c = "Object" -> isPlainObject(x)
    [] c \in {"String", "Number", "Boolean", "Function"} -> getNativeType(x) = c
    [] OTHER -> x.k = "instance" /\ x.v = c

(***************************************************************************)
(* Validator closures.  A closure is a record [f |-> code, captured...]:   *)
(*   isInteger, symbol           index.js:89, index.js:100                 *)
(*   custom    pred              index.js:180                              *)
(*   oneOf     arr               index.js:204                              *)
(*   oneOfType arr               index.js:258                              *)
(*   arrayOf   type              index.js:275                              *)
(*   objectOf  type              index.js:287                              *)
(*   shape     obj, requiredKeys, self (the descriptor it is bound to)     *)
(*   extended  parent, child     index.js:139                              *)
(*   stubTrue                    part_000:39                               *)
(*   bound     fn, args          validator.bind(ret, ...args), index.js:159*)
(*   user      pred, this        a function given to validate(fn) or to    *)
(*                               extend as validator, and its bound `this` *)
(***************************************************************************)
RECURSIVE validateType(_, _, _, _)
RECURSIVE CallValidator(_, _, _)
RECURSIVE SomeType(_, _, _, _)
RECURSIVE SomeCandidate(_, _, _, _)
RECURSIVE EveryMember(_, _, _, _, _)
RECURSIVE EveryKey(_, _, _, _, _)

\* `const r = e` followed by statements using r is written
\* The({statements : r \in {e}}): e is evaluated once, as in the code
The(S) == CHOOSE x \in S : TRUE

\* typeToCheck.type.some((type) => validateType(type, value, true) === true)
SomeType(h, l, i, value) ==
  IF i > Len(l) THEN Result(False, 0)
  ELSE The({ IF r.threw THEN r
              ELSE IF r.ret = True THEN Result(True, 0)
              ELSE SomeType(h, l, i + 1, value) :
              r \in {validateType(h, l[i], value, TRUE)} })

\* type._vueTypes_name === 'oneOf' ? type.type || null : type
CandidateType(h, cand) ==
  IF cand.t = "ref" /\ h[cand.r].name = "oneOf"
  THEN IF h[cand.r].type.t \in {"none", "null", "undefined"}
       THEN NullType
       ELSE h[cand.r].type
  ELSE cand

\* arr.some(...) of the oneOfType validator; reading a property of a null or
\* undefined candidate raises
SomeCandidate(h, arr, i, value) ==
  IF i > Len(arr) THEN Result(False, 0)
  ELSE IF arr[i].t \in {"null", "undefined"} THEN Thrown(FALSE, 0)
  ELSE The({ IF r.threw THEN r
              ELSE IF r.ret = True THEN Result(True, 0)
              ELSE SomeCandidate(h, arr, i + 1, value) :
              r \in {validateType(h, CandidateType(h, arr[i]), value, TRUE)} })

\* a container validator written with `some` in place of `every`
EveryMember_Some(h, type, vals, i, acc) ==
  Result(Bool(\E j \in 1..Len(vals) :
                Truthy(validateType(h, type, vals[j], FALSE).ret)), acc)

\* values.every((value) => validateType(type, value)): loud calls, whose
\* messages go to the sink installed while the validator runs; acc counts them
EveryMember(h, type, vals, i, acc) ==
  IF i > Len(vals) THEN Result(True, acc)
  ELSE The({ IF r.threw THEN Thrown(r.leak, acc + r.out)
              ELSE IF Truthy(r.ret) THEN EveryMember(h, type, vals, i + 1, acc + r.out)
              ELSE Result(False, acc + r.out) :
              r \in {validateType(h, type, vals[i], FALSE)} })

\* a shape validator that never finds its descriptor loose
IsLoose_Never(h, self) == FALSE

\* this._vueTypes_isLoose === true, index.js:334
IsLoose(h, self) == h[self].loose = "loose"

\* valueKeys.every((key) => ...) of the shape validator, index.js:332-349
EveryKey(h, vt, value, i, acc) ==
  IF i > Len(value.props) THEN Result(True, acc)
  ELSE LET key == value.props[i].key
       IN IF ~SeqHas(ObjectKeys(vt.obj), key)
          THEN IF IsLoose(h, vt.self)
               THEN EveryKey(h, vt, value, i + 1, acc)
               ELSE Result(False, acc + 1)
          ELSE The({ LET n == IF r.ret.k = "string" THEN acc + 1 ELSE acc
                     IN IF r.threw THEN Thrown(r.leak, acc)
                        ELSE IF r.ret = True THEN EveryKey(h, vt, value, i + 1, n)
                        ELSE Result(False, n) :
                     r \in {validateType(h, GetProp(vt.obj, key), value.props[i].val, TRUE)} })

\* requiredKeys.some((req) => valueKeys.indexOf(req) === -1), index.js:313-316
MissingRequired(vt, value) ==
  \E i \in 1..Len(vt.requiredKeys) : ~SeqHas(ObjectKeys(value), vt.requiredKeys[i])

PropValues(x) == [i \in 1..Len(x.props) |-> x.props[i].val]

\* the value of `this` in a function bound to the descriptor heap[self];
\* self = 0: the function is not bound
This(self) == IF self = 0 THEN Undefined ELSE [k |-> "descriptor", r |-> self]

\* a call of a user-supplied function fn = [f |-> "user", pred, this]:
\*   report  function (...args) { return [this].concat(args) }
\* and the predicates above, which look at their first argument only
ApplyFn(fn, args) ==
  IF fn.pred = "report" THEN Result(Arr(<<This(fn.this)>> \o args), 0)
  ELSE ApplyPred(fn.pred, IF Len(args) = 0 THEN Undefined ELSE args[1])

\* fn.bind(heap[self]): a function that is bound already keeps its `this`;
\* the function of index.js:139 hands its `this` to the extension's own
\* validator; the library's other closures do not read `this` or, as
\* shape's, were bound when they were made
Bind(fn, self) ==
  CASE fn.f = "user" -> IF fn.this = 0 THEN [fn EXCEPT !.this = self] ELSE fn
    [] fn.f = "extended" /\ fn.child.f = "user" ->
         IF fn.child.this = 0 THEN [fn EXCEPT !.child.this = self] ELSE fn
    [] OTHER -> fn

\* the first argument of a call; a missing argument reads as undefined
FirstArg(args) == IF Len(args) = 0 THEN Undefined ELSE args[1]

\* a call closure(...args): ret is what the closure returns, out the number of
\* warn(...) calls it makes on the sink current while it runs
CallValidator(h, vt, args) ==
  LET value == FirstArg(args) IN
  CASE vt.f = "stubTrue" -> Result(True, 0)
    [] vt.f = "isInteger" -> Result(Bool(isInteger(value)), 0)
    [] vt.f = "symbol" -> Result(Bool(value.k = "symbol"), 0)
    [] vt.f = "user" -> ApplyFn(vt, args)
    [] vt.f = "custom" ->
         The({ IF p.threw THEN p
               ELSE Result(p.ret, IF Truthy(p.ret) THEN 0 ELSE 1) :
               p \in {ApplyPred(vt.pred, value)} })
    [] vt.f = "oneOf" ->
         LET valid == \E i \in 1..Len(vt.arr) : StrictEq(vt.arr[i], value)
         IN Result(Bool(valid), IF valid THEN 0 ELSE 1)
    [] vt.f = "oneOfType" ->
         The({ IF r.threw THEN r
               ELSE IF r.ret = True THEN Result(True, 0)
               ELSE IF ToStringThrows(value) THEN Thrown(FALSE, 0)
               ELSE Result(False, 1) :
               r \in {SomeCandidate(h, vt.arr, 1, value)} })
    [] vt.f = "arrayOf" ->
         IF ~isArray(value) THEN Thrown(FALSE, 0)
         ELSE The({ IF r.threw \/ r.ret = True THEN r
                    ELSE Result(False, r.out + 1) :
                    r \in {EveryMember(h, vt.type, value.items, 1, 0)} })
    [] vt.f = "objectOf" ->
         IF ~isPlainObject(value) THEN Thrown(FALSE, 0)
         ELSE The({ IF r.threw \/ r.ret = True THEN r
                    ELSE Result(False, r.out + 1) :
                    r \in {EveryMember(h, vt.type, PropValues(value), 1, 0)} })
    [] vt.f = "shape" ->
         IF ~isPlainObject(value) THEN Result(False, 0)
         ELSE IF MissingRequired(vt, value) THEN Result(False, 1)
         ELSE EveryKey(h, vt, value, 1, 0)
    [] vt.f = "extended" ->
         The({ IF rp.threw \/ ~Truthy(rp.ret) THEN rp
               ELSE The({ IF rc.threw THEN Thrown(rc.leak, rp.out + rc.out)
                          ELSE Result(rc.ret, rp.out + rc.out) :
                          rc \in {CallValidator(h, vt.child, args)} }) :
               rp \in {CallValidator(h, h[vt.parent].validator, args)} })
    [] vt.f = "bound" -> CallValidator(h, vt.fn, vt.args \o args)

\* a check that takes null for absent as well
Absent_Nullish(typeToCheck, value) ==
  ~typeToCheck.required /\ value \in {Undefined, Null}

\* !typeToCheck.required && value === undefined, part_000:210
Absent(typeToCheck, value) == ~typeToCheck.required /\ value = Undefined

\* hasOwn.call(typeToCheck, 'type') && typeToCheck.type !== null, part_000:204
HasTypeToCheck(typeToCheck) == typeToCheck.type.t \notin {"none", "null"}

\* part_000:247-269: the validator runs with `warn` pointing at a buffer;
\* `warn = oldWarn` is skipped when the validator raises
ValidatorStage(h, typeToCheck, value, silent) ==
  IF typeToCheck.validator.f = "none" THEN Result(True, 0)
  ELSE The({ IF r.threw THEN [Thrown(TRUE, 0) EXCEPT !.called = TRUE]
              ELSE IF Truthy(r.ret) THEN [Result(r.ret, 0) EXCEPT !.called = TRUE]
              ELSE IF silent
                   THEN [Result(IF r.out > 0 THEN Msg ELSE EmptyStr, 0) EXCEPT !.called = TRUE]
                   ELSE [Result(r.ret, IF r.out > 0 THEN 1 ELSE 0) EXCEPT !.called = TRUE] :
              r \in {CallValidator(h, typeToCheck.validator, <<value>>)} })

\* part_000:213-235
NativeStage(h, typeToCheck, value) ==
  CASE typeToCheck.type.t = "list" -> SomeType(h, typeToCheck.type.l, 1, value)
    [] typeToCheck.type.t = "ctor" -> Result(Bool(NativeCheck(typeToCheck.type.c, value)), 0)
    [] OTHER -> Thrown(FALSE, 0)

validateType(h, type, value, silent) ==
  LET typeToCheck == IF type.t = "ref" THEN h[type.r] ELSE BareType(type)
  IN IF ~HasTypeToCheck(typeToCheck)
     THEN ValidatorStage(h, typeToCheck, value, silent)
     ELSE IF typeToCheck.type.t = "undefined" THEN Thrown(FALSE, 0)
     ELSE IF Absent(typeToCheck, value) THEN Result(True, 0)
     ELSE The({ IF n.threw THEN n
                 ELSE IF n.ret = True
                 THEN ValidatorStage(h, typeToCheck, value, silent)
                 ELSE IF ToStringThrows(value) THEN Thrown(FALSE, 0)
                 ELSE IF silent THEN Result(Msg, 0)
                 ELSE Result(False, 1) :
                 n \in {NativeStage(h, typeToCheck, value)} })

(***************************************************************************)
(* Descriptors.                                                            *)
(*   name      _vueTypes_name                                              *)
(*   type      see above                                                   *)
(*   required  TRUE once isRequired was read; FALSE: the property is unset *)
(*   default   absent | value v | arrayFactory / objectFactory of a literal*)
(*   validator a closure, or NoValidator                                   *)
(*   validate  settable (withValidate) | stub | none (not made by toType)  *)
(*   loose     none (not a shape) | strict | loose   (_vueTypes_isLoose)   *)
(***************************************************************************)
Opts(type, validator) ==
  [type |-> type, required |-> FALSE, default |-> NoDefault, validator |-> validator]

\* toType(name, obj, validateFn): the validator, bound to obj, is the closure
toType(name, obj, validateFn) ==
  [name |-> name, type |-> obj.type, required |-> obj.required,
   default |-> obj.default, validator |-> obj.validator,
   validate |-> IF validateFn THEN "settable" ELSE "stub", loose |-> "none"]

\* !this.default
DefaultIsFalsy(d) ==
  \/ d.d = "absent"
  \/ d.d = "value" /\ ~Truthy(d.v)

\* what def stores, part_000:104-110
StoredDefault(def) ==
  IF isArray(def) THEN [d |-> "arrayFactory", of |-> def]
  ELSE IF isPlainObject(def) THEN [d |-> "objectFactory", of |-> def]
  ELSE [d |-> "value", v |-> def]

\* this.default() for the factories of part_000:105 and 107: `[...def]` and
\* `Object.assign({}, def)` make a new object, here the one with identity id
DefaultFactory(d, id) ==
  IF d.d = "arrayFactory" THEN Located(Arr(d.of.items), id)
  ELSE Located(Obj(d.of.props), id)

\* an accessor that hands out the descriptor it made for that name before
New_Memoized(h, d) ==
  IF \E i \in 1..Len(h) : h[i].name = d.name
  THEN [h |-> h, r |-> CHOOSE i \in 1..Len(h) : h[i].name = d.name]
  ELSE [h |-> Append(h, d), r |-> Len(h) + 1]

\* the object toType is handed is a new one on every call: an object literal
\* in the getters of index.js:16-106, Object.assign({}, opts) in index.js:148
\* and 157; r is its identity
New(h, d) == [h |-> Append(h, d), r |-> Len(h) + 1]

\* an isRequired getter that flips the flag
isRequired_Toggle(h, i) == [h EXCEPT ![i].required = ~h[i].required]

\* the isRequired getter read on heap[i], part_000:126-129
isRequired(h, i) == [h EXCEPT ![i].required = TRUE]

\* this.def(def) on heap[i], part_000:96-112: the heap it leaves and how the
\* call ends (ret is unused: def returns `this`)
def(h, i, x) ==
  IF x = Undefined /\ DefaultIsFalsy(h[i].default)
  THEN [h |-> h, r |-> Result(Undefined, 0)]
  ELSE The({ IF v.threw THEN [h |-> h, r |-> v]
              ELSE IF ~isFunction(x) /\ ~Truthy(v.ret)
              THEN IF ToStringThrows(x)
                   THEN [h |-> h, r |-> Thrown(FALSE, v.out)]
                   ELSE [h |-> h, r |-> Result(Undefined, v.out + 1)]
              ELSE [h |-> [h EXCEPT ![i].default = StoredDefault(x)],
                    r |-> Result(Undefined, v.out)] :
              v \in {IF isFunction(x) THEN Result(True, 0)
                      ELSE validateType(h, Ref(i), x, FALSE)} })

\* sensibles.js is not among the sources: the built-in defaults are those
\* the tests of index.test.js:55-185 observe
TypeDefaults ==
  [func |-> Fn("noop"), bool |-> True, string |-> Str(""), number |-> Num("0"),
   array |-> Fn("arrayFactory"), object |-> Fn("objectFactory"),
   integer |-> Num("0")]

\* a mapping of primitive names to defaults, as assigned to sensibleDefaults
Mapping(map) == [k |-> "mapping", map |-> map]

\* the setter of VueTypes.sensibleDefaults (sensibles.js): the defaults in
\* force after the assignment of value
setDefaults(value) ==
  CASE value = False -> <<>>
    [] value = True -> TypeDefaults
    [] OTHER -> value.map

\* getters that take the built-in default whatever the option says
SensibleDefault_BuiltIn(sd, name) == TypeDefaults[name]

\* VueTypes.sensibleDefaults.<name>, index.js:33-92; a property that is not
\* there reads as undefined
SensibleDefault(sd, name) == IF name \in DOMAIN sd THEN sd[name] ELSE Undefined

\* the getters of index.js:16-106
Primitive(name) ==
  CASE name = "any" -> toType("any", Opts(NullType, NoValidator), TRUE)
    [] name = "func" -> toType("function", Opts(Ctor("Function"), NoValidator), TRUE)
    [] name = "bool" -> toType("boolean", Opts(Ctor("Boolean"), NoValidator), TRUE)
    [] name = "string" -> toType("string", Opts(Ctor("String"), NoValidator), TRUE)
    [] name = "number" -> toType("number", Opts(Ctor("Number"), NoValidator), TRUE)
    [] name = "array" -> toType("array", Opts(Ctor("Array"), NoValidator), TRUE)
    [] name = "object" -> toType("object", Opts(Ctor("Object"), NoValidator), TRUE)
    [] name = "integer" ->
         toType("integer", Opts(Ctor("Number"), [f |-> "isInteger"]), FALSE)
    [] name = "symbol" -> toType("symbol", Opts(NullType, [f |-> "symbol"]), TRUE)

HasSensibleDefault(name) == name \notin {"any", "symbol"}

\* custom(validatorFn): the descriptor is named after the function
custom(pred) == toType(pred, Opts(NoType, [f |-> "custom", pred |-> pred]), FALSE)

\* a reduce that pushes the constructor of every member it keeps
AllowedTypes_Repeated(arr, i, ret) ==
  LET kept == SelectSeq(arr, LAMBDA v : v.k \notin {"null", "undefined"})
  IN [j \in 1..Len(kept) |-> Ctor(getNativeType(kept[j]))]

\* arr.reduce(...) of index.js:195-200: the constructors of the members that
\* are neither null nor undefined, in order of first occurrence
RECURSIVE AllowedTypes(_, _, _)
AllowedTypes(arr, i, ret) ==
  IF i > Len(arr) THEN ret
  ELSE LET c == Ctor(getNativeType(arr[i]))
       IN IF arr[i].k \in {"null", "undefined"} \/ SeqHas(ret, c)
          THEN AllowedTypes(arr, i + 1, ret)
          ELSE AllowedTypes(arr, i + 1, Append(ret, c))

oneOf(arr) ==
  LET allowedTypes == AllowedTypes(arr, 1, <<>>)
  IN toType("oneOf",
            Opts(IF Len(allowedTypes) > 0 THEN TypeList(allowedTypes) ELSE NullType,
                 [f |-> "oneOf", arr |-> arr]),
            FALSE)

instanceOf(c) == toType("instanceOf", Opts(Ctor(c), NoValidator), FALSE)

\* one step of arr.reduce(...) of index.js:227-243
NativeChecksOf(h, cand) ==
  IF cand.t = "ref"
  THEN LET ty == h[cand.r].type
       IN IF h[cand.r].name = "oneOf"
          THEN IF ty.t = "list" THEN ty.l
               ELSE IF ty.t \in {"none", "null", "undefined"} THEN <<>>
               ELSE <<ty>>
          ELSE IF ty.t \in {"none", "undefined"} THEN <<>>
          ELSE IF ty.t = "list" THEN ty.l
          ELSE <<ty>>
  ELSE <<cand>>

RECURSIVE NativeChecks(_, _, _)
NativeChecks(h, arr, i) ==
  IF i > Len(arr) THEN <<>>
  ELSE NativeChecksOf(h, arr[i]) \o NativeChecks(h, arr, i + 1)

\* a filter that keeps every entry
RemoveDuplicates_None(l) == l

\* nativeChecks.filter((t, i) => nativeChecks.indexOf(t) === i)
RemoveDuplicates(l) ==
  LET keep == {i \in 1..Len(l) : \A j \in 1..(i - 1) : l[j] # l[i]}
      F[i \in 0..Len(l)] ==
        IF i = 0 THEN <<>>
        ELSE IF i \in keep THEN Append(F[i - 1], l[i]) ELSE F[i - 1]
  IN F[Len(l)]

\* hasCustomValidators, index.js:229-234: a oneOf candidate returns before
\* its validator is looked at
HasCustomValidators(h, arr) ==
  \E i \in 1..Len(arr) :
     /\ arr[i].t = "ref"
     /\ h[arr[i].r].name # "oneOf"
     /\ h[arr[i].r].validator.f # "none"

oneOfType(h, arr) ==
  LET nativeChecks == TypeList(RemoveDuplicates(NativeChecks(h, arr, 1)))
  IN IF ~HasCustomValidators(h, arr)
     THEN toType("oneOfType", Opts(nativeChecks, NoValidator), FALSE)
     ELSE toType("oneOfType",
                 Opts(nativeChecks, [f |-> "oneOfType", arr |-> arr]), FALSE)

arrayOf(type) ==
  toType("arrayOf", Opts(Ctor("Array"), [f |-> "arrayOf", type |-> type]), FALSE)

objectOf(type) ==
  toType("objectOf", Opts(Ctor("Object"), [f |-> "objectOf", type |-> type]), FALSE)

\* keys.filter((key) => obj[key] && obj[key].required === true)
RequiredKeys(h, obj) ==
  LET keys == ObjectKeys(obj)
      req == {i \in 1..Len(keys) :
                 /\ obj.props[i].val.t = "ref"
                 /\ h[obj.props[i].val.r].required}
      F[i \in 0..Len(keys)] ==
        IF i = 0 THEN <<>>
        ELSE IF i \in req THEN Append(F[i - 1], keys[i]) ELSE F[i - 1]
  IN F[Len(keys)]

\* shape(obj), index.js:298-368; self is the identity of the new descriptor
shape(h, obj, self) ==
  [toType("shape",
          Opts(Ctor("Object"),
               [f |-> "shape", obj |-> obj, requiredKeys |-> RequiredKeys(h, obj),
                self |-> self]),
          FALSE)
   EXCEPT !.loose = "strict"]

(***************************************************************************)
(* The extension registry.  `reg` maps the names extend has defined on     *)
(* VueTypes to what Object.defineProperty stored for them:                 *)
(*   getter    TRUE: an accessor; FALSE: a method taking arguments         *)
(*   opts      the `opts` object the accessor or method closes over        *)
(*   validate  the `validate` flag it closes over                          *)
(*   parent    the `type` extend was given, and parentAt the descriptor it *)
(*             referred to as it was when extend was called (kept for the  *)
(*             properties; the code keeps only the reference)              *)
(* The argument of extend is a record: [isArray |-> TRUE, items] for a     *)
(* list, otherwise [isArray |-> FALSE, name, getter, validate, type,       *)
(* validator, required, default].                                          *)
(***************************************************************************)
BuiltinNames ==
  {"any", "func", "bool", "string", "number", "array", "object", "integer",
   "symbol", "extend", "custom", "oneOf", "instanceOf", "oneOfType", "arrayOf",
   "objectOf", "shape", "sensibleDefaults", "utils"}

\* a registry lookup that finds no name defined
has_Never(reg, prop) == FALSE

\* has(VueTypes, name), part_000:48
has(reg, prop) == prop \in BuiltinNames \cup DOMAIN reg

\* type[key] !== undefined for key = 'default'
DefinedDefault(d) == d.d # "absent" /\ ~(d.d = "value" /\ d.v = Undefined)

\* an extension that takes nothing from the descriptor given as its type
Inherit_Nothing(parent, r, props) ==
  [type |-> NoType, required |-> props.required, default |-> props.default,
   validator |-> props.validator]

\* index.js:120-143: opts of an extension whose type is the descriptor
\* `parent` (heap[r]): the type is detached, then type, required and default
\* are taken from the parent where it defines them, and the validator calls
\* the parent's validator, then the extension's own or stubTrue
Inherit(parent, r, props) ==
  [type |-> IF parent.type.t \in {"none", "undefined"} THEN NoType ELSE parent.type,
   required |-> IF parent.required THEN TRUE ELSE props.required,
   default |-> IF DefinedDefault(parent.default) THEN parent.default ELSE props.default,
   validator |->
     IF parent.validator.f # "none"
     THEN [f |-> "extended", parent |-> r,
           child |-> IF props.validator.f = "none" THEN [f |-> "stubTrue"]
                     ELSE props.validator]
     ELSE props.validator]

\* type && type._vueTypes_name, index.js:121
IsVueType(type) == type.t = "ref"

\* a registration that keeps the validate option of a derived extension
DefineProperty_Validate(reg, h, props) ==
  LET derived == IsVueType(props.type)
      entry ==
        [getter |-> props.getter,
         opts |-> IF derived THEN Inherit(h[props.type.r], props.type.r, props)
                  ELSE [type |-> props.type, required |-> props.required,
                        default |-> props.default, validator |-> props.validator],
         validate |-> props.validate,
         parent |-> props.type,
         parentAt |-> IF derived THEN h[props.type.r] ELSE BareType(props.type)]
  IN (props.name :> entry) @@ reg

\* Object.defineProperty(this, name, descriptor), index.js:144-169
DefineProperty(reg, h, props) ==
  LET derived == IsVueType(props.type)
      entry ==
        [getter |-> props.getter,
         opts |-> IF derived THEN Inherit(h[props.type.r], props.type.r, props)
                  ELSE [type |-> props.type, required |-> props.required,
                        default |-> props.default, validator |-> props.validator],
         validate |-> IF derived THEN FALSE ELSE props.validate,
         parent |-> props.type,
         parentAt |-> IF derived THEN h[props.type.r] ELSE BareType(props.type)]
  IN (props.name :> entry) @@ reg

RECURSIVE extend(_, _, _)
RECURSIVE extendEach(_, _, _, _)

\* a list registration that defines every element or none
extendEach_Atomic(reg, h, items, i) ==
  LET clash == \E j \in 1..Len(items) :
                 \/ has(reg, items[j].name)
                 \/ \E k \in 1..(j - 1) : items[k].name = items[j].name
      F[k \in 0..Len(items)] ==
        IF k = 0 THEN reg ELSE DefineProperty(F[k - 1], h, items[k])
  IN IF clash THEN [reg |-> reg, threw |-> TRUE]
     ELSE [reg |-> F[Len(items)], threw |-> FALSE]

\* props.forEach((p) => VueTypes.extend(p)), index.js:110
extendEach(reg, h, items, i) ==
  IF i > Len(items) THEN [reg |-> reg, threw |-> FALSE]
  ELSE LET r == extend(reg, h, items[i])
       IN IF r.threw THEN r ELSE extendEach(r.reg, h, items, i + 1)

\* VueTypes.extend(props), index.js:108-170: the registry it leaves and
\* whether it raised
extend(reg, h, props) ==
  IF props.isArray THEN extendEach(reg, h, props.items, 1)
  ELSE IF has(reg, props.name) THEN [reg |-> reg, threw |-> TRUE]
  ELSE [reg |-> DefineProperty(reg, h, props), threw |-> FALSE]

\* get() of index.js:147-149; toType binds the validator to the descriptor
\* it returns (part_000:179-181), which is heap[self]
GetterExtension(entry, name, self) ==
  LET ret == toType(name, entry.opts, entry.validate)
  IN [ret EXCEPT !.validator = Bind(ret.validator, self)]

\* a factory that drops the arguments it is called with
FactoryExtension_NoArgs(entry, name, args, self) ==
  LET ret == toType(name, entry.opts, entry.validate)
  IN [ret EXCEPT !.validator = Bind(ret.validator, self)]

\* value(...args) of index.js:156-162; ret is heap[self]
FactoryExtension(entry, name, args, self) ==
  LET ret == toType(name, entry.opts, entry.validate)
  IN IF entry.opts.validator.f # "none"
     THEN [ret EXCEPT !.validator =
             [f |-> "bound", fn |-> Bind(entry.opts.validator, self), args |-> args]]
     ELSE ret

\* this.validate(fn) on heap[i]: part_000:142-145 where toType was given
\* validateFn, part_000:172-175 otherwise
validate(h, i, fn) ==
  IF h[i].validate = "settable"
  THEN [h |-> [h EXCEPT ![i].validator = [f |-> "user", pred |-> fn, this |-> i]],
        r |-> Result(Undefined, 0)]
  ELSE [h |-> h, r |-> Result(Undefined, 1)]

(***************************************************************************)
(* The inputs the operations are tried with.                               *)
(***************************************************************************)
Values ==
  { Undefined, Null, Num("0"), Num("1"), Num("5"), Num("1.5"), Str("a"), Sym,
    Inst("MyClass"),
    Obj(<<>>),
    Obj(<<Prop("id", Num("1"))>>),
    Obj(<<Prop("id", Str("a"))>>),
    Obj(<<Prop("id", Undefined)>>),
    Obj(<<Prop("name", Str("a"))>>),
    Obj(<<Prop("id", Num("1")), Prop("extra", Num("1"))>>) }

PrimitiveNames == {"any", "string", "integer", "symbol"}

Predicates == {"isString", "length"}

OneOfArgs ==
  { <<Num("0"), Num("1"), Str("a")>>, <<Num("0"), Null>>, <<Null>> }

Refs(h) == {Ref(i) : i \in 1..Len(h)}

TypeArgs(h) == {Ctor("Number"), Ctor("String")} \cup Refs(h)

OneOfTypeArgs(h) ==
  {<<a>> : a \in Refs(h)} \cup {<<a, b>> : a \in Refs(h), b \in TypeArgs(h)}
    \cup {<<b, a>> : a \in Refs(h), b \in {Ctor("Number")}}

ShapeArgs(h) ==
  {[props |-> <<Prop("id", t)>>] : t \in TypeArgs(h)}
    \cup {[props |-> <<Prop("id", t), Prop("name", Ctor("String"))>>] : t \in Refs(h)}

\* the values def is called with
DefArgs ==
  { Undefined, Null, Num("1"), Num("1.5"), Str("a"), Sym, Fn("f"),
    Obj(<<Prop("id", Num("1"))>>), Arr(<<Num("1")>>) }

\* further arrays oneOf is called with: repeated constructors, and no member
\* that has one
OneOfMoreArgs ==
  { <<Str("a"), Num("0"), Null, Num("1"), Str("a")>>, <<>>, <<Undefined, Null>> }

\* arrays and objects the container validators are applied to
ContainerValues ==
  { Arr(<<>>), Arr(<<Num("0"), Num("1")>>), Arr(<<Num("0"), Num("1.5")>>),
    Arr(<<Str("a")>>), Arr(<<Num("1"), Str("a")>>), Arr(<<Str("a"), Num("1")>>),
    Arr(<<Undefined>>), Arr(<<Num("1"), Null>>),
    Obj(<<>>), Obj(<<Prop("a", Num("1"))>>), Obj(<<Prop("a", Num("1.5"))>>),
    Obj(<<Prop("a", Num("1")), Prop("b", Str("a"))>>),
    Obj(<<Prop("a", Str("a"))>>), Obj(<<Prop("a", Undefined)>>) }

\* the values sensibleDefaults is assigned
SensibleDefaultsArgs ==
  { False, True, Mapping([string |-> Str("a")]),
    Mapping([func |-> Fn("f"), integer |-> Num("1"), array |-> Arr(<<Num("1")>>)]) }

\* the accessors that call def with a sensible default
DefaultedNames == {"func", "bool", "string", "number", "array", "object", "integer"}

\* the argument of extend for one extension
Props(name, getter, type, validator) ==
  [isArray |-> FALSE, name |-> name, getter |-> getter, validate |-> TRUE,
   type |-> type, validator |-> validator, required |-> FALSE,
   default |-> NoDefault]

\* names to extend with: one that is free at start-up and a built-in one
ExtensionNames == {"alias", "string"}

ExtendArgs(h) ==
  {Props(n, TRUE, t, NoValidator) : n \in ExtensionNames, t \in Refs(h)}
    \cup {Props(n, g, t, [f |-> "user", pred |-> "isString", this |-> 0]) :
            n \in ExtensionNames, g \in BOOLEAN, t \in {Ctor("String")} \cup Refs(h)}

ExtendListArgs(h) ==
  {[isArray |-> TRUE, items |-> <<Props(names[1], TRUE, t, NoValidator),
                                  Props(names[2], TRUE, t, NoValidator)>>] :
     names \in {<<"alias", "other">>, <<"other", "alias">>, <<"other", "string">>},
     t \in Refs(h)}

\* the arguments a factory extension is called with
FactoryArgs == {<<>>, <<Num("1")>>}

\* extensions registered with and without validate: true, as accessors and
\* as methods, on a native type and derived from a descriptor
ValidateExtendArgs(h) ==
  {[Props("alias", g, t, NoValidator) EXCEPT !.validate = v] :
     g \in BOOLEAN, v \in BOOLEAN, t \in {Ctor("String")} \cup Refs(h)}

\* the arguments a factory extension with a validator is called with
FactoryMoreArgs == {<<Str("a")>>, <<Num("1"), Num("2")>>}

\* the values a validator is applied to from outside the library
ProbeValues == {Undefined, Num("1"), Num("1.5"), Str("a")}

\* types validateType is called with that are not descriptors
BareTypes == {UndefinedType, BadType, Ctor("Number"), TypeList(<<Ctor("String"), Ctor("MyClass")>>)}

(***************************************************************************)
(* The state: the descriptor objects made so far, the process-wide         *)
(* diagnostic sink (`warn` of part_000:273: "console" is the function      *)
(* installed at start-up, "buffer" a closure left over from a validateType *)
(* call), the properties extend has defined on VueTypes (besides the       *)
(* built-in ones), the sensibleDefaults option (the value assigned to it   *)
(* last and the defaults in force), the number of arrays and object        *)
(* literals made so far, and the call that was made last with how it ended.*)
(***************************************************************************)
Idle == [op |-> "none"]

Init ==
  /\ heap = <<>>
  /\ warn = "console"
  /\ registry = <<>>
  /\ sensibleDefaults = [assigned |-> True, current |-> TypeDefaults]
  /\ objects = 0
  /\ last = Idle

CanCall == last = Idle

CanAllocate == last = Idle /\ Len(heap) < MaxHeap

\* the sink after a call: a call that raised inside a validator never ran
\* `warn = oldWarn`
SinkAfter(r) == IF r.threw /\ r.leak THEN "buffer" ELSE warn

\* messages that reached the console: those handed to the sink of a call
\* that began with the start-up sink installed
Emitted(r) == IF warn = "console" THEN r.out ELSE 0

\* VueTypes.<name>: toType(...).def(VueTypes.sensibleDefaults.<name>)
ReadPrimitive(name) ==
  /\ CanAllocate
  /\ \E fresh \in {New(heap, Primitive(name))} :
     \E d \in {IF HasSensibleDefault(name)
               THEN def(fresh.h, fresh.r, SensibleDefault(sensibleDefaults.current, name))
               ELSE [h |-> fresh.h, r |-> Result(Undefined, 0)]} :
        /\ heap' = d.h
        /\ warn' = SinkAfter(d.r)
        /\ last' = [op |-> "read", name |-> name, returned |-> fresh.r]
  /\ UNCHANGED <<objects, registry, sensibleDefaults>>

Custom(pred) ==
  /\ CanAllocate
  /\ heap' = Append(heap, custom(pred))
  /\ UNCHANGED <<objects, warn, registry, sensibleDefaults, last>>

OneOf(arr) ==
  /\ CanAllocate
  /\ heap' = Append(heap, oneOf(arr))
  /\ UNCHANGED <<objects, warn, registry, sensibleDefaults, last>>

InstanceOf(c) ==
  /\ CanAllocate
  /\ heap' = Append(heap, instanceOf(c))
  /\ UNCHANGED <<objects, warn, registry, sensibleDefaults, last>>

OneOfType(arr) ==
  /\ CanAllocate
  /\ heap' = Append(heap, oneOfType(heap, arr))
  /\ last' = [op |-> "oneOfType", arr |-> arr, returned |-> Len(heap) + 1]
  /\ UNCHANGED <<objects, warn, registry, sensibleDefaults>>

Shape(obj) ==
  /\ CanAllocate
  /\ heap' = Append(heap, shape(heap, obj, Len(heap) + 1))
  /\ UNCHANGED <<objects, warn, registry, sensibleDefaults, last>>

\* heap[i].def(x), part_000:96-112; an array or object literal x is a new
\* object made by the caller
Def(i, x) ==
  /\ CanCall
  /\ \E literal \in {isArray(x) \/ isPlainObject(x)} :
     \E arg \in {IF literal THEN Located(x, objects + 1) ELSE x} :
     \E d \in {def(heap, i, arg)} :
        /\ literal => objects < MaxObjects
        /\ objects' = IF literal THEN objects + 1 ELSE objects
        /\ heap' = d.h
        /\ warn' = SinkAfter(d.r)
        /\ last' = [op |-> "def", target |-> i, arg |-> arg, before |-> heap[i],
                    res |-> d.r, emitted |-> Emitted(d.r), returned |-> i]
  /\ UNCHANGED <<registry, sensibleDefaults>>

\* heap[i].default() where def stored a factory, part_000:105 and 107
InvokeDefault(i) ==
  /\ CanCall
  /\ heap[i].default.d \in {"arrayFactory", "objectFactory"}
  /\ objects < MaxObjects
  /\ objects' = objects + 1
  /\ last' = [op |-> "default", target |-> i, made |-> objects,
              result |-> DefaultFactory(heap[i].default, objects + 1)]
  /\ UNCHANGED <<heap, warn, registry, sensibleDefaults>>

ArrayOf(type) ==
  /\ CanAllocate
  /\ heap' = Append(heap, arrayOf(type))
  /\ UNCHANGED <<objects, warn, registry, sensibleDefaults, last>>

ObjectOf(type) ==
  /\ CanAllocate
  /\ heap' = Append(heap, objectOf(type))
  /\ UNCHANGED <<objects, warn, registry, sensibleDefaults, last>>

\* heap[i].validator(value), called from outside the library
ApplyValidator(i, value) ==
  /\ CanCall
  /\ heap[i].validator.f # "none"
  /\ \E r \in {CallValidator(heap, heap[i].validator, <<value>>)} :
        /\ warn' = SinkAfter(r)
        /\ last' = [op |-> "validator", target |-> i, value |-> value, res |-> r,
                    emitted |-> Emitted(r)]
  /\ UNCHANGED <<objects, heap, registry, sensibleDefaults>>

\* VueTypes.sensibleDefaults = value
SetSensibleDefaults(value) ==
  /\ CanCall
  /\ sensibleDefaults' = [assigned |-> value, current |-> setDefaults(value)]
  /\ last' = [op |-> "sensibleDefaults", value |-> value]
  /\ UNCHANGED <<objects, heap, warn, registry>>

\* heap[i].validate(fn)
Validate(i, fn) ==
  /\ CanCall
  /\ \E d \in {validate(heap, i, fn)} :
        /\ heap' = d.h
        /\ last' = [op |-> "validate", target |-> i, arg |-> fn, before |-> heap[i],
                    res |-> d.r, emitted |-> Emitted(d.r), returned |-> i]
  /\ UNCHANGED <<objects, warn, registry, sensibleDefaults>>

\* VueTypes.extend(props)
Extend(props) ==
  /\ CanCall
  /\ \E r \in {extend(registry, heap, props)} :
        /\ registry' = r.reg
        /\ last' = [op |-> "extend", props |-> props, before |-> registry,
                    threw |-> r.threw]
  /\ UNCHANGED <<objects, heap, warn, sensibleDefaults>>

\* VueTypes.<name> for a name extend defined as an accessor
ReadExtension(name) ==
  /\ CanAllocate
  /\ registry[name].getter
  /\ \E fresh \in {New(heap, GetterExtension(registry[name], name, Len(heap) + 1))} :
        /\ heap' = fresh.h
        /\ last' = [op |-> "readExtension", name |-> name, returned |-> fresh.r]
  /\ UNCHANGED <<objects, warn, registry, sensibleDefaults>>

\* VueTypes.<name>(...args) for a name extend defined as a method
CallExtension(name, args) ==
  /\ CanAllocate
  /\ ~registry[name].getter
  /\ \E fresh \in {New(heap, FactoryExtension(registry[name], name, args, Len(heap) + 1))} :
        /\ heap' = fresh.h
        /\ last' = [op |-> "callExtension", name |-> name, args |-> args,
                    returned |-> fresh.r]
  /\ UNCHANGED <<objects, warn, registry, sensibleDefaults>>

\* heap[i].isRequired
IsRequired(i) ==
  /\ CanCall
  /\ heap' = isRequired(heap, i)
  /\ last' = [op |-> "isRequired", target |-> i, before |-> heap[i], returned |-> i]
  /\ UNCHANGED <<objects, warn, registry, sensibleDefaults>>

\* the loose getter of a shape descriptor, index.js:359-365
Loose(i) ==
  /\ CanCall
  /\ heap[i].loose # "none"
  /\ heap' = [heap EXCEPT ![i].loose = "loose"]
  /\ last' = [op |-> "loose", target |-> i, before |-> heap[i], returned |-> i]
  /\ UNCHANGED <<objects, warn, registry, sensibleDefaults>>

\* a call of validateType from outside the library
ValidateType(type, value, silent) ==
  /\ CanCall
  /\ \E r \in {validateType(heap, type, value, silent)} :
        /\ warn' = SinkAfter(r)
        /\ last' = [op |-> "validateType", type |-> type, value |-> value,
                    silent |-> silent, res |-> r, emitted |-> Emitted(r),
                    sink |-> warn]
  /\ UNCHANGED <<objects, heap, registry, sensibleDefaults>>

\* VueTypes.utils.validate(value, type), index.js:374-376
utilsValidate(h, value, type) == validateType(h, type, value, TRUE).ret = True

UtilsValidate(value, type) ==
  /\ CanCall
  /\ \E r \in {validateType(heap, type, value, TRUE)} :
        /\ warn' = SinkAfter(r)
        /\ last' = [op |-> "utils.validate", type |-> type, value |-> value,
                    silent |-> TRUE, res |-> r, emitted |-> Emitted(r),
                    sink |-> warn, ret |-> utilsValidate(heap, value, type)]
  /\ UNCHANGED <<objects, heap, registry, sensibleDefaults>>

\* the caller goes on with its next statement
Return ==
  /\ last # Idle
  /\ last' = Idle
  /\ UNCHANGED <<objects, heap, warn, registry, sensibleDefaults>>

Next ==
  \/ \E name \in PrimitiveNames : ReadPrimitive(name)
  \/ \E pred \in Predicates : Custom(pred)
  \/ \E arr \in OneOfArgs : OneOf(arr)
  \/ InstanceOf("MyClass")
  \/ \E arr \in OneOfTypeArgs(heap) : OneOfType(arr)
  \/ \E obj \in ShapeArgs(heap) : Shape(obj)
  \/ \E i \in 1..Len(heap) : IsRequired(i)
  \/ \E i \in 1..Len(heap) : Loose(i)
  \/ \E type \in Refs(heap) \cup BareTypes, value \in Values, silent \in BOOLEAN :
        ValidateType(type, value, silent)
  \/ \E type \in Refs(heap), value \in Values : UtilsValidate(value, type)
  \/ Return

Spec == Init /\ [][Next]_vars

(***************************************************************************)
(* Shape descriptors on their own: the primitives used as fields, shape,   *)
(* its two getters and validation of object values.                        *)
(***************************************************************************)
ObjectValues == {v \in Values : isPlainObject(v)}

NextShape ==
  \/ \E name \in {"integer", "symbol"} : ReadPrimitive(name)
  \/ \E obj \in ShapeArgs(heap) : Shape(obj)
  \/ \E i \in 1..Len(heap) : IsRequired(i)
  \/ \E i \in 1..Len(heap) : Loose(i)
  \/ \E type \in Refs(heap), value \in ObjectValues, silent \in BOOLEAN :
        ValidateType(type, value, silent)
  \/ \E type \in Refs(heap), value \in ObjectValues : UtilsValidate(value, type)
  \/ Return

SpecShape == Init /\ [][NextShape]_vars

(***************************************************************************)
(* Defaults on their own: descriptors with a native type, with a validator *)
(* and with both, and def called on them.                                  *)
(***************************************************************************)
NextDef ==
  \/ \E name \in {"any", "string", "integer"} : ReadPrimitive(name)
  \/ \E pred \in Predicates : Custom(pred)
  \/ \E arr \in OneOfArgs : OneOf(arr)
  \/ \E i \in 1..Len(heap) : IsRequired(i)
  \/ \E i \in 1..Len(heap), x \in DefArgs : Def(i, x)
  \/ \E i \in 1..Len(heap) : InvokeDefault(i)
  \/ Return

SpecDef == Init /\ [][NextDef]_vars

(***************************************************************************)
(* The extension registry on its own: descriptors to derive from, the      *)
(* modifiers that change them afterwards, extend, and the use of what it   *)
(* defined.                                                                *)
(***************************************************************************)
NextExtend ==
  \/ \E name \in {"string", "integer", "symbol"} : ReadPrimitive(name)
  \/ \E i \in 1..Len(heap) : IsRequired(i)
  \/ \E i \in 1..Len(heap) : Validate(i, "length")
  \/ \E props \in ExtendArgs(heap) \cup ExtendListArgs(heap) : Extend(props)
  \/ \E name \in DOMAIN registry : ReadExtension(name)
  \/ \E name \in DOMAIN registry, args \in FactoryArgs : CallExtension(name, args)
  \/ \E type \in Refs(heap), value \in {Undefined, Num("1"), Num("1.5"), Str("a"), Sym} :
        UtilsValidate(value, type)
  \/ Return

SpecExtend == Init /\ [][NextExtend]_vars

(***************************************************************************)
(* The modifiers on their own: isRequired, def, validate and loose read or *)
(* called in any order on primitive and shape descriptors.                 *)
(***************************************************************************)
NextModifiers ==
  \/ \E name \in {"string", "integer"} : ReadPrimitive(name)
  \/ \E obj \in ShapeArgs(heap) : Shape(obj)
  \/ \E i \in 1..Len(heap) : IsRequired(i)
  \/ \E i \in 1..Len(heap) : Loose(i)
  \/ \E i \in 1..Len(heap), x \in {Undefined, Num("1"), Str("a"), Fn("f")} : Def(i, x)
  \/ \E i \in 1..Len(heap) : Validate(i, "length")
  \/ Return

SpecModifiers == Init /\ [][NextModifiers]_vars

(***************************************************************************)
(* Reads on their own: the accessors, getter and factory extensions read   *)
(* more than once, and the modifiers applied to what they returned.        *)
(***************************************************************************)
NextReads ==
  \/ \E name \in {"string", "integer"} : ReadPrimitive(name)
  \/ \E g \in BOOLEAN, t \in {Ctor("String")} \cup Refs(heap) :
        Extend(Props("alias", g, t, [f |-> "user", pred |-> "isString", this |-> 0]))
  \/ \E name \in DOMAIN registry : ReadExtension(name)
  \/ \E name \in DOMAIN registry, args \in FactoryArgs : CallExtension(name, args)
  \/ \E i \in 1..Len(heap) : IsRequired(i)
  \/ \E i \in 1..Len(heap), x \in {Undefined, Num("1"), Str("a")} : Def(i, x)
  \/ \E i \in 1..Len(heap) : Validate(i, "length")
  \/ Return

SpecReads == Init /\ [][NextReads]_vars

(***************************************************************************)
(* The sensibleDefaults option on its own: assignments to it and reads of  *)
(* the accessors.                                                          *)
(***************************************************************************)
NextDefaults ==
  \/ \E value \in SensibleDefaultsArgs : SetSensibleDefaults(value)
  \/ \E name \in DefaultedNames : ReadPrimitive(name)
  \/ Return

SpecDefaults == Init /\ [][NextDefaults]_vars

(***************************************************************************)
(* The container builders on their own: arrayOf and objectOf of a native   *)
(* type and of descriptors with a validator, and their validators applied  *)
(* to arrays and objects.                                                  *)
(***************************************************************************)
NextContainers ==
  \/ ReadPrimitive("integer")
  \/ Custom("length")
  \/ \E i \in 1..Len(heap) : IsRequired(i)
  \/ \E type \in TypeArgs(heap) : ArrayOf(type)
  \/ \E type \in TypeArgs(heap) : ObjectOf(type)
  \/ \E i \in 1..Len(heap), value \in ContainerValues : ApplyValidator(i, value)
  \/ Return

SpecContainers == Init /\ [][NextContainers]_vars

(***************************************************************************)
(* oneOf on its own.                                                       *)
(***************************************************************************)
NextOneOf ==
  \/ \E arr \in OneOfArgs \cup OneOfMoreArgs : OneOf(arr)
  \/ \E i \in 1..Len(heap) : IsRequired(i)
  \/ \E type \in Refs(heap), value \in {Undefined, Null, Num("0"), Num("5"), Str("a")} :
        UtilsValidate(value, type)
  \/ Return

SpecOneOf == Init /\ [][NextOneOf]_vars

(***************************************************************************)
(* Factory extensions on their own: a method registered with a validator   *)
(* that reports how it is called, on a native type, on a parent without a  *)
(* validator (string) and on a parent with one (integer); the method is    *)
(* called with zero, one and two arguments and the validators it returns   *)
(* are applied.                                                            *)
(***************************************************************************)
NextFactory ==
  \/ \E name \in {"string", "integer"} : ReadPrimitive(name)
  \/ \E t \in {Ctor("String")} \cup Refs(heap) :
        Extend(Props("alias", FALSE, t, [f |-> "user", pred |-> "report", this |-> 0]))
  \/ \E name \in DOMAIN registry, args \in FactoryArgs \cup FactoryMoreArgs :
        CallExtension(name, args)
  \/ \E i \in 1..Len(heap), value \in ProbeValues : ApplyValidator(i, value)
  \/ Return

SpecFactory == Init /\ [][NextFactory]_vars

(***************************************************************************)
(* validate(fn) on its own: on accessors with and without a settable       *)
(* validate, on the descriptors of the composite builders and on the       *)
(* descriptors of extensions, with the validators it leaves applied.       *)
(***************************************************************************)
NextValidate ==
  \/ \E name \in {"string", "integer"} : ReadPrimitive(name)
  \/ Custom("isString")
  \/ OneOf(<<Num("0"), Null>>)
  \/ InstanceOf("MyClass")
  \/ \E type \in {Ctor("Number")} : ArrayOf(type)
  \/ \E type \in {Ctor("Number")} : ObjectOf(type)
  \/ \E arr \in {<<Ctor("Number"), Ctor("String")>>} : OneOfType(arr)
  \/ \E obj \in {[props |-> <<Prop("id", Ctor("Number"))>>]} : Shape(obj)
  \/ \E props \in ValidateExtendArgs(heap) : Extend(props)
  \/ \E name \in DOMAIN registry : ReadExtension(name)
  \/ \E name \in DOMAIN registry : CallExtension(name, <<>>)
  \/ \E i \in 1..Len(heap), fn \in {"report", "length"} : Validate(i, fn)
  \/ \E i \in 1..Len(heap), value \in ProbeValues : ApplyValidator(i, value)
  \/ Return

SpecValidate == Init /\ [][NextValidate]_vars

(***************************************************************************)
(* oneOfType over nested descriptors: oneOf descriptors (of numbers and a  *)
(* string, of a number and a symbol, of null only), a shape, integer and a *)
(* custom descriptor are made, oneOfType is called with one or two of them *)
(* and the validator it returns is applied, as in index.test.js:671-682.   *)
(***************************************************************************)
NestedOneOfArgs == OneOfArgs \cup { <<Num("0"), Sym>> }

NestedCandidates(h) ==
  {<<a>> : a \in Refs(h)} \cup {<<a, b>> : a \in Refs(h), b \in Refs(h) \cup {Ctor("String")}}

\* VueTypes.oneOfType(arr) where arr holds the descriptors made so far
OneOfTypeNested(arr) ==
  /\ CanCall
  /\ Len(heap) <= MaxHeap
  /\ heap' = Append(heap, oneOfType(heap, arr))
  /\ last' = [op |-> "oneOfType", arr |-> arr, returned |-> Len(heap) + 1]
  /\ UNCHANGED <<objects, warn, registry, sensibleDefaults>>

NextNested ==
  \/ \E arr \in NestedOneOfArgs : OneOf(arr)
  \/ Shape([props |-> <<Prop("id", Ctor("Number"))>>])
  \/ ReadPrimitive("integer")
  \/ Custom("isString")
  \/ \E arr \in NestedCandidates(heap) : OneOfTypeNested(arr)
  \/ \E i \in 1..Len(heap), value \in Values : ApplyValidator(i, value)
  \/ Return

SpecNested == Init /\ [][NextNested]_vars

(***************************************************************************)
(* Validation of null and undefined: against the six native tags, a class  *)
(* and unions of them, given bare and as the type of a descriptor, with    *)
(* the required flag set and unset.                                        *)
(***************************************************************************)
NativeTags == {"String", "Number", "Boolean", "Function", "Array", "Object"}

TaggedTypes ==
  {Ctor(c) : c \in NativeTags \cup {"MyClass"}}
    \cup { TypeList(<<Ctor("String"), Ctor("Number")>>),
           TypeList(<<Ctor("Array"), Ctor("MyClass")>>),
           TypeList(<<Ctor("Boolean"), Ctor("Function"), Ctor("Object")>>) }

TaggedNames == {"string", "number", "bool", "func", "array", "object", "integer"}

AbsentValues == {Undefined, Null, Num("1"), Str("a"), Inst("MyClass"), Arr(<<>>)}

NextNull ==
  \/ \E name \in TaggedNames : ReadPrimitive(name)
  \/ InstanceOf("MyClass")
  \/ \E arr \in {<<Ctor("String"), Ctor("Number")>>, <<Ctor("Array"), Ctor("MyClass")>>} :
        OneOfType(arr)
  \/ \E i \in 1..Len(heap) : IsRequired(i)
  \/ \E type \in Refs(heap) \cup TaggedTypes, value \in AbsentValues, silent \in BOOLEAN :
        ValidateType(type, value, silent)
  \/ \E type \in Refs(heap), value \in AbsentValues : UtilsValidate(value, type)
  \/ Return

SpecNull == Init /\ [][NextNull]_vars

(***************************************************************************)
(* extend called with lists: of one to three elements, with free names, a  *)
(* built-in name and repeated names, as accessors and as methods, next to  *)
(* calls with a single element and reads of the accessors defined.         *)
(***************************************************************************)
ListElements ==
  {Props(n, g, t, NoValidator) :
     n \in {"alias", "other", "string"}, g \in BOOLEAN, t \in {Ctor("String"), Ctor("Number")}}

ListArgs ==
  {[isArray |-> TRUE, items |-> items] :
     items \in {<<a>> : a \in ListElements}
                 \cup {<<a, b>> : a, b \in ListElements}
                 \cup {<<a, b, c>> : a, b, c \in ListElements}}

NextList ==
  \/ \E props \in ListArgs : Extend(props)
  \/ \E props \in ListElements : Extend(props)
  \/ \E name \in DOMAIN registry : ReadExtension(name)
  \/ Return

SpecList == Init /\ [][NextList]_vars

(***************************************************************************)
(* Properties.                                                             *)
(***************************************************************************)
IsValidation == last.op \in {"validateType", "utils.validate"}

\* the last call validated against a descriptor named `name`
ValidatedA(name) ==
  /\ IsValidation
  /\ last.type.t = "ref"
  /\ heap[last.type.r].name = name

\* the last validation accepted its value
Accepted ==
  /\ ~last.res.threw
  /\ IF last.silent THEN last.res.ret = True ELSE Truthy(last.res.ret)

\* C1: validating undefined against a descriptor whose required flag is not
\* true passes at once: the result is true and the validator is not invoked,
\* also when the descriptor has no type or a null type and carries a validator
C1_UndefinedPassesBeforeValidator ==
  ( /\ IsValidation
    /\ last.type.t = "ref"
    /\ ~heap[last.type.r].required
    /\ last.value = Undefined )
  => ( /\ ~last.res.threw
       /\ last.res.ret = True
       /\ ~last.res.called )

\* C2: validateType never raises and returns true, false or a string
C2_ValidateTypeTotal ==
  last.op = "validateType"
  => ( /\ ~last.res.threw
       /\ \/ last.res.ret \in {True, False}
          \/ last.res.ret.k = "string" )

\* C3: when a validateType call has ended, by returning or by raising, the
\* diagnostic sink is the function that was installed before the call, so a
\* loud failing validation hands its message to the start-up sink
C3_SinkRestored ==
  /\ IsValidation => warn = last.sink
  /\ (last.op = "validateType" /\ ~last.silent /\ last.res.out > 0)
       => last.emitted = last.res.out

\* C4: utils.validate(v, oneOf(L)) is true exactly when v is strictly equal
\* to a member of L
C4_OneOfIffMember ==
  (last.op = "utils.validate" /\ ValidatedA("oneOf"))
  => LET arr == heap[last.type.r].validator.arr
     IN last.ret <=> \E i \in 1..Len(arr) : StrictEq(arr[i], last.value)

\* C5: validation against a oneOfType descriptor that has a validator
\* succeeds exactly when some candidate, validated on its own, accepts the value
C5_OneOfTypeIffSomeCandidate ==
  ( /\ last.op = "utils.validate"
    /\ ValidatedA("oneOfType")
    /\ heap[last.type.r].validator.f = "oneOfType" )
  => LET arr == heap[last.type.r].validator.arr
     IN last.ret <=> \E i \in 1..Len(arr) : utilsValidate(heap, last.value, arr[i])

HasUndeclaredKey(vt, v) ==
  \E i \in 1..Len(v.props) : ~SeqHas(ObjectKeys(vt.obj), v.props[i].key)

\* v without the keys the shape does not declare
DeclaredPart(vt, v) ==
  Obj(SelectSeq(v.props, LAMBDA p : SeqHas(ObjectKeys(vt.obj), p.key)))

FieldRequired(h, t) == t.t = "ref" /\ h[t.r].required

\* C9: a shape rejects an object that lacks a key required when shape was
\* called; it accepts an object whose present keys are all declared and each
\* either validates or is undefined for a field that is not required
C9_ShapeRequiredAndOptionalKeys ==
  (last.op = "utils.validate" /\ ValidatedA("shape") /\ isPlainObject(last.value))
  => LET vt == heap[last.type.r].validator
         v == last.value
         FieldOk(i) ==
           LET field == GetProp(vt.obj, v.props[i].key)
           IN \/ v.props[i].val = Undefined /\ ~FieldRequired(heap, field)
              \/ utilsValidate(heap, v.props[i].val, field)
     IN /\ MissingRequired(vt, v) => ~last.ret
        /\ ( /\ ~MissingRequired(vt, v)
             /\ ~HasUndeclaredKey(vt, v)
             /\ \A i \in 1..Len(v.props) : FieldOk(i) )
           => last.ret

\* the validator closure vt does not accept v
Rejects(h, vt, v) ==
  LET r == CallValidator(h, vt, <<v>>)
  IN r.threw \/ ~Truthy(r.ret)

\* C6: a descriptor read from a getter extension whose type was a descriptor
\* has the type, required and default the parent had when extend was called,
\* each where the parent defined it; and where the parent had a validator,
\* the validator of the descriptor rejects every value the parent's validator
\* rejects, whether or not the extension was given a validator of its own
C6_GetterExtensionInherits ==
  /\ (last.op = "readExtension" /\ IsVueType(registry[last.name].parent))
     => LET e == registry[last.name]
            p == e.parentAt
            d == heap[last.returned]
        IN /\ p.type.t \notin {"none", "undefined"} => d.type = p.type
           /\ p.required => d.required
           /\ DefinedDefault(p.default) => d.default = p.default
           /\ p.validator.f # "none" => d.validator.f = "extended"
  /\ \A i \in 1..Len(heap) :
       heap[i].validator.f = "extended"
       => \A v \in Values :
            Rejects(heap, heap[heap[i].validator.parent].validator, v)
            => Rejects(heap, heap[i].validator, v)

\* C6 witness: a getter extension given no validator, derived from a required
\* descriptor with a default and a validator that rejects some value, was read
C6_Witness ==
  /\ last.op = "readExtension"
  /\ IsVueType(registry[last.name].parent)
  /\ registry[last.name].parentAt.required
  /\ DefinedDefault(registry[last.name].parentAt.default)
  /\ heap[last.returned].validator.f = "extended"
  /\ heap[last.returned].validator.child = [f |-> "stubTrue"]
  /\ \E v \in Values :
       Rejects(heap, heap[registry[last.name].parent.r].validator, v)

\* C7: extend never changes or removes what a name was defined as, neither a
\* built-in name nor one defined by an earlier extend, and it raises when it
\* is given a name that is already defined, leaving the registry as it was
C7_ExtendNeverOverwrites ==
  last.op = "extend"
  => LET defined == BuiltinNames \cup DOMAIN last.before
     IN /\ DOMAIN registry \cap BuiltinNames = {}
        /\ \A n \in DOMAIN last.before :
             n \in DOMAIN registry /\ registry[n] = last.before[n]
        /\ (~last.props.isArray /\ last.props.name \in defined)
             => (last.threw /\ registry = last.before)
        /\ ( /\ last.props.isArray
             /\ \E i \in 1..Len(last.props.items) : last.props.items[i].name \in defined )
             => last.threw

\* C7 witness: extend was called with a name an earlier extend had defined,
\* for an extension that differs from the one defined
C7_Witness ==
  /\ last.op = "extend"
  /\ ~last.props.isArray
  /\ last.props.name \in DOMAIN last.before
  /\ last.props.getter # last.before[last.props.name].getter
  /\ last.threw

\* the default x fails validation against the descriptor def was called on
InvalidDefault ==
  LET r == validateType([heap EXCEPT ![last.target] = last.before],
                        Ref(last.target), last.arg, TRUE)
  IN r.threw \/ r.ret # True

\* C10: def called with a value that is not a function and fails validation
\* against the descriptor returns the descriptor with every field as it was,
\* and raises nothing
C10_InvalidDefaultIsSoftFailure ==
  (last.op = "def" /\ ~isFunction(last.arg) /\ InvalidDefault)
  => ( /\ ~last.res.threw
       /\ last.returned = last.target
       /\ heap[last.target] = last.before )

\* the default x passes the validation def makes of it
ValidDefault ==
  LET r == validateType([heap EXCEPT ![last.target] = last.before],
                        Ref(last.target), last.arg, FALSE)
  IN ~r.threw /\ Truthy(r.ret)

\* C11: after def(x) with a function x, or with an x that validates, default
\* is x itself when x is a function (stored without being validated) or
\* neither an array nor an object literal, and otherwise a factory of x; each
\* call of such a factory returns an object with the content of x that is
\* neither x nor an object that existed before the call
C11_DefStoresDefault ==
  /\ (last.op = "def" /\ (isFunction(last.arg) \/ ValidDefault))
     => /\ ~last.res.threw
        /\ heap[last.target].default = StoredDefault(last.arg)
        /\ isFunction(last.arg) => last.res.out = 0
  /\ last.op = "default"
     => LET x == heap[last.target].default.of
        IN /\ last.result.k = x.k
           /\ isArray(x) => last.result.items = x.items
           /\ isPlainObject(x) => last.result.props = x.props
           /\ last.result.id # x.id
           /\ last.result.id \notin 1..last.made

\* C12: reading isRequired returns the descriptor it was read on with
\* required true and nothing else changed, so a second read changes nothing;
\* and no step, whichever modifier it is, makes a true required flag false
C12_RequiredIsSetOnce ==
  /\ [](last.op = "isRequired"
          => /\ last.returned = last.target
             /\ heap[last.target] = [last.before EXCEPT !.required = TRUE])
  /\ [][\A i \in 1..Len(heap) : heap[i].required => heap'[i].required]_vars

\* C12 witness: def has stored a default on a descriptor on which isRequired
\* had been read
C12_Witness ==
  /\ last.op = "def"
  /\ last.before.required
  /\ heap[last.target].default # last.before.default
  /\ heap[last.target].required

\* C13: a read of an accessor or of a getter extension and a call of a
\* factory extension return a descriptor that did not exist before and leave
\* every existing descriptor as it was; isRequired, def and validate change
\* no descriptor but the one they are applied to
C13_ReadsAreIndependent ==
  [][ /\ (last.op = "none" /\ last'.op \in {"read", "readExtension", "callExtension"})
         => /\ last'.returned \notin 1..Len(heap)
            /\ last'.returned \in 1..Len(heap')
            /\ \A j \in 1..Len(heap) : heap'[j] = heap[j]
      /\ (last.op = "none" /\ last'.op \in {"isRequired", "def", "validate"})
         => /\ Len(heap') = Len(heap)
            /\ \A j \in 1..Len(heap) : j # last'.target => heap'[j] = heap[j] ]_vars

\* C13 witness: a modifier has changed one of two descriptors read from the
\* same extension
C13_Witness ==
  /\ last.op \in {"isRequired", "def", "validate"}
  /\ heap[last.target] # last.before
  /\ heap[last.target].name = "alias"
  /\ \E j \in 1..Len(heap) : j # last.target /\ heap[j].name = "alias"

MemberAccepted(h, type, v) ==
  LET r == validateType(h, type, v, FALSE)
  IN ~r.threw /\ Truthy(r.ret)

MemberRaises(h, type, v) == validateType(h, type, v, FALSE).threw

\* C15: the validator of arrayOf(type) applied to an array, and that of
\* objectOf(type) applied to an object, returns true exactly when every
\* element, or every value of an own key, validates against type; it returns
\* true or false whenever no element makes the validation raise, and true
\* for an empty container
C15_ContainersCheckEveryMember ==
  ( /\ last.op = "validator"
    /\ \/ heap[last.target].name = "arrayOf" /\ isArray(last.value)
       \/ heap[last.target].name = "objectOf" /\ isPlainObject(last.value) )
  => LET type == heap[last.target].validator.type
         vals == IF isArray(last.value) THEN last.value.items
                 ELSE PropValues(last.value)
         all == \A i \in 1..Len(vals) : MemberAccepted(heap, type, vals[i])
     IN /\ (~last.res.threw /\ last.res.ret = True) <=> all
        /\ (\A i \in 1..Len(vals) : ~MemberRaises(heap, type, vals[i]))
           => (~last.res.threw /\ last.res.ret \in {True, False})
        /\ Len(vals) = 0 => last.res.ret = True

\* C15 witness: arrayOf of a descriptor with a validator has rejected an array
\* whose first element validates and whose second does not
C15_Witness ==
  /\ last.op = "validator"
  /\ heap[last.target].name = "arrayOf"
  /\ isArray(last.value)
  /\ Len(last.value.items) = 2
  /\ heap[last.target].validator.type.t = "ref"
  /\ MemberAccepted(heap, heap[last.target].validator.type, last.value.items[1])
  /\ ~MemberAccepted(heap, heap[last.target].validator.type, last.value.items[2])
  /\ last.res.ret = False

\* the members of arr that have a constructor
HasConstructor(v) == v.k \notin {"null", "undefined"}

\* the place of the first member of arr made by the constructor c
FirstOf(arr, c) ==
  CHOOSE i \in 1..Len(arr) :
    /\ HasConstructor(arr[i]) /\ Ctor(getNativeType(arr[i])) = c
    /\ \A j \in 1..(i - 1) : ~(HasConstructor(arr[j]) /\ Ctor(getNativeType(arr[j])) = c)

\* C16: the type of oneOf(L) is null when no member of L is other than null
\* and undefined; otherwise it is a non-empty list that holds exactly the
\* constructors of the other members, each once, in the order in which they
\* first occur in L
C16_OneOfType ==
  \A d \in 1..Len(heap) :
    heap[d].name = "oneOf"
    => LET arr == heap[d].validator.arr
           type == heap[d].type
       IN IF \A i \in 1..Len(arr) : ~HasConstructor(arr[i])
          THEN type = NullType
          ELSE /\ type.t = "list"
               /\ Len(type.l) > 0
               /\ \A i \in 1..Len(arr) :
                    HasConstructor(arr[i]) => SeqHas(type.l, Ctor(getNativeType(arr[i])))
               /\ \A i \in 1..Len(type.l) :
                    \E j \in 1..Len(arr) :
                      HasConstructor(arr[j]) /\ Ctor(getNativeType(arr[j])) = type.l[i]
               /\ \A i, j \in 1..Len(type.l) :
                    i < j => /\ type.l[i] # type.l[j]
                             /\ FirstOf(arr, type.l[i]) < FirstOf(arr, type.l[j])

\* C16 witness: oneOf of an array in which a constructor occurs twice, next
\* to null, and oneOf of an array without any constructor
C16_Witness ==
  /\ \E d \in 1..Len(heap) :
       /\ heap[d].name = "oneOf"
       /\ heap[d].type.t = "list"
       /\ Len(heap[d].type.l) = 2
       /\ Len(heap[d].validator.arr) = 5
  /\ \E d \in 1..Len(heap) :
       /\ heap[d].name = "oneOf"
       /\ heap[d].type = NullType
       /\ Len(heap[d].validator.arr) = 2

\* the candidate carries a validator of its own
CarriesValidator(h, cand) == cand.t = "ref" /\ h[cand.r].validator.f # "none"

\* the candidate is a descriptor made by oneOf
IsOneOf(h, cand) == cand.t = "ref" /\ h[cand.r].name = "oneOf"

\* the native types a candidate stands for
NativeTypesOf(h, cand) ==
  IF cand.t # "ref" THEN {cand}
  ELSE IF h[cand.r].type.t = "list" THEN {h[cand.r].type.l[i] : i \in 1..Len(h[cand.r].type.l)}
  ELSE IF h[cand.r].type.t = "none" THEN {}
  ELSE {h[cand.r].type}

ListedTypes(h, cand) ==
  IF cand.t # "ref" THEN <<cand>>
  ELSE IF h[cand.r].type.t = "list" THEN h[cand.r].type.l
  ELSE IF h[cand.r].type.t = "none" THEN <<>>
  ELSE IF IsOneOf(h, cand) /\ h[cand.r].type = NullType THEN <<>>
  ELSE <<h[cand.r].type>>

\* the native types of all candidates, in order and with repetitions
RECURSIVE Flattened(_, _, _)
Flattened(h, arr, i) ==
  IF i > Len(arr) THEN <<>>
  ELSE ListedTypes(h, arr[i]) \o Flattened(h, arr, i + 1)

\* the place at which t is seen first in l
FirstSeen(l, t) == CHOOSE i \in 1..Len(l) : l[i] = t /\ \A j \in 1..(i - 1) : l[j] # t

\* a value passes the check of some listed type taken on its own: the type
\* is null, the value is undefined, or the native check of the type passes
PassesSome(l, v) ==
  \E i \in 1..Len(l) :
     \/ l[i] = NullType
     \/ v = Undefined
     \/ l[i].t = "ctor" /\ NativeCheck(l[i].c, v)

OwnValidator(entry) ==
  IF entry.opts.validator.f = "extended" THEN entry.opts.validator.child
  ELSE entry.opts.validator

\* what the reporting validator returns when it is called with the
\* arguments args and v and with heap[self] as context
Report(self, args, v) == Arr(<<[k |-> "descriptor", r |-> self]>> \o args \o <<v>>)

\* the validator of heap[i] applied to v
Applied(h, i, v) == CallValidator(h, h[i].validator, <<v>>)

\* the last call was a call of a factory extension registered with the
\* reporting validator
CalledFactory ==
  /\ last.op = "callExtension"
  /\ OwnValidator(registry[last.name]) = [f |-> "user", pred |-> "report", this |-> 0]

\* C18: the descriptor a factory extension registered with a validator
\* returns for the arguments a1..an has a validator that, applied to v,
\* invokes the registered validator with (a1, ..., an, v) and with the
\* returned descriptor as context
C18_FactoryValidatorGetsArgs ==
  CalledFactory
  => \A v \in ProbeValues :
        LET r == Applied(heap, last.returned, v)
        IN ~r.threw /\ r.ret = Report(last.returned, last.args, v)

\* the validator of the parent of a derived extension, if it has one,
\* returns a truthy value for the arguments args
ParentPasses(h, entry, args) ==
  (entry.parent.t = "ref" /\ h[entry.parent.r].validator.f # "none")
  => LET r == CallValidator(h, h[entry.parent.r].validator, args)
     IN ~r.threw /\ Truthy(r.ret)

\* C18 (amended): the validator of the descriptor a factory extension
\* registered with a validator returns for a1..an, applied to v, invokes the
\* registered validator with (a1, ..., an, v) and with the returned
\* descriptor as context, unless the extension is derived from a descriptor
\* whose validator returns a falsy value for (a1, ..., an, v): then the
\* registered validator is not invoked and the result is falsy; a later
\* call of the factory changes the validator of no descriptor made before
C18_FactoryValidatorGetsArgsIfParentPasses ==
  /\ [](CalledFactory
         => \A v \in ProbeValues :
               LET r == Applied(heap, last.returned, v)
               IN /\ ~r.threw
                  /\ IF ParentPasses(heap, registry[last.name], last.args \o <<v>>)
                     THEN r.ret = Report(last.returned, last.args, v)
                     ELSE ~Truthy(r.ret))
  /\ [][\A i \in 1..Len(heap), v \in ProbeValues :
          heap[i].validator.f = "bound" => Applied(heap', i, v) = Applied(heap, i, v)]_vars

\* C18 witness: the factory was called with two arguments after it had
\* been called with other arguments, and the validator of the earlier
\* descriptor still reports less than two arguments
C18_Witness ==
  /\ CalledFactory
  /\ Len(last.args) = 2
  /\ \E i \in 1..Len(heap) :
       /\ i # last.returned
       /\ heap[i].name = last.name
       /\ \E v \in ProbeValues :
            /\ Applied(heap, i, v).ret.k = "array"
            /\ Len(Applied(heap, i, v).ret.items) < 4

\* the descriptor d was built with a settable validate: by an accessor
\* other than integer, or by an extension registered with validate: true
\* that is not derived from a descriptor
BuiltWithValidate(d) ==
  \/ d.name \in {"any", "function", "boolean", "string", "number", "array", "object", "symbol"}
  \/ /\ d.name \in DOMAIN registry
     /\ registry[d.name].parent.t # "ref"
     /\ registry[d.name].validate

\* C19: validate(fn) returns the descriptor it was called on and does not
\* raise; on a descriptor built with a settable validate the validator is
\* from then on fn with the descriptor as context and no other field
\* changes; on any other descriptor (integer, the composite builders, every
\* extension derived from a descriptor) no field changes
C19_ValidateSetsOrLeaves ==
  last.op = "validate"
  => LET b == last.before
         d == heap[last.target]
     IN /\ last.returned = last.target
        /\ ~last.res.threw
        /\ IF BuiltWithValidate(b)
           THEN /\ [d EXCEPT !.validator = b.validator] = b
                /\ \A v \in ProbeValues :
                      Applied(heap, last.target, v)
                        = ApplyFn([f |-> "user", pred |-> last.arg, this |-> last.target], <<v>>)
           ELSE d = b

\* C19 witness: validate was called on the descriptor of an extension
\* registered with validate: true and derived from a descriptor, and the
\* diagnostic was handed to the sink
C19_Witness ==
  /\ last.op = "validate"
  /\ last.before.name \in DOMAIN registry
  /\ registry[last.before.name].parent.t = "ref"
  /\ last.res.out = 1
  /\ heap[last.target] = last.before

\* the native check of the descriptor d passes for v or is skipped: d has
\* no type or a null type
NativePassesOrSkipped(d, v) ==
  CASE ~HasTypeToCheck(d) -> TRUE
    [] d.type.t = "list" -> PassesSome(d.type.l, v)
    [] d.type.t = "ctor" -> NativeCheck(d.type.c, v)
    [] OTHER -> FALSE

\* the validator of d, if it has one, returns a truthy value for v
ValidatorTruthy(h, d, v) ==
  d.validator.f # "none"
  => LET r == CallValidator(h, d.validator, <<v>>)
     IN ~r.threw /\ Truthy(r.ret)

\* heap[r] used as the field of a shape accepts v: index.js:344-348
FieldAccepted(h, type, v) == validateType(h, type, v, TRUE).ret = True

\* C20: utils.validate(value, descriptor) returns true or false; it returns
\* true exactly when the native check passes or is skipped and the
\* validator, if there is one, returns a truthy value, be it a boolean or
\* not (a descriptor with a type that is not required passes undefined
\* without either); the descriptor used as the member type of arrayOf or as
\* the field of a shape accepts the value in exactly the same cases
C20_UtilsValidateIffTruthy ==
  (last.op = "utils.validate" /\ last.type.t = "ref")
  => LET d == heap[last.type.r]
         v == last.value
     IN /\ ~last.res.threw
        /\ last.ret <=> \/ HasTypeToCheck(d) /\ Absent(d, v)
                        \/ NativePassesOrSkipped(d, v) /\ ValidatorTruthy(heap, d, v)
        /\ last.ret <=> MemberAccepted(heap, last.type, v)
        /\ last.ret <=> FieldAccepted(heap, last.type, v)

\* C8: a shape descriptor on which loose was not read accepts no object with
\* an undeclared key; after loose was read it accepts an object exactly when
\* it accepts the object's declared part; loose and isRequired return the
\* descriptor they were read on and change only their own flag, so the two
\* orders of reading them leave the same descriptor
C8_ShapeLoose ==
  /\ (ValidatedA("shape") /\ isPlainObject(last.value))
     => LET d == heap[last.type.r]
            part == DeclaredPart(d.validator, last.value)
        IN IF d.loose = "loose"
           THEN Accepted <=> utilsValidate(heap, part, last.type)
           ELSE HasUndeclaredKey(d.validator, last.value) => ~Accepted
  /\ last.op = "loose"
     => /\ last.returned = last.target
        /\ heap[last.target] = [last.before EXCEPT !.loose = "loose"]
  /\ (last.op = "isRequired" /\ last.before.loose # "none")
     => /\ last.returned = last.target
        /\ heap[last.target] = [last.before EXCEPT !.required = TRUE]

\* C8 witness: a shape on which both getters were read has accepted an object
\* with a declared and an undeclared key
C8_Witness ==
  /\ ValidatedA("shape")
  /\ isPlainObject(last.value)
  /\ heap[last.type.r].loose = "loose"
  /\ heap[last.type.r].required
  /\ HasUndeclaredKey(heap[last.type.r].validator, last.value)
  /\ DeclaredPart(heap[last.type.r].validator, last.value) # Obj(<<>>)
  /\ Accepted

\* the type of a oneOf descriptor admits v: the type is null, or v was made
\* by one of the listed constructors
TypeAdmits(type, v) ==
  \/ type = NullType
  \/ /\ type.t = "list"
     /\ HasConstructor(v)
     /\ SeqHas(type.l, Ctor(getNativeType(v)))

\* the validator of a oneOfType descriptor was applied
AppliedOneOfType ==
  /\ last.op = "validator"
  /\ heap[last.target].validator.f = "oneOfType"

CalledDerivedFactory ==
  /\ last.op = "callExtension"
  /\ registry[last.name].parent.t = "ref"
  /\ heap[registry[last.name].parent.r].validator.f # "none"

\* the validator of heap[i] returns a falsy value for v
ValidatorRejects(h, i, v) ==
  LET r == Applied(h, i, v) IN ~r.threw /\ ~Truthy(r.ret)

\* C22: the descriptor returned by a factory extension that is derived from
\* a parent with a validator rejects, whatever the arguments the factory was
\* called with, every value that the parent's validator rejects
C22_FactoryAppliesParentToValue ==
  CalledDerivedFactory
  => \A v \in ProbeValues :
        ValidatorRejects(heap, registry[last.name].parent.r, v)
        => ValidatorRejects(heap, last.returned, v)

\* t is one of the six native tags, a class, or a union of these
IsTagged(t) ==
  \/ t.t = "ctor"
  \/ t.t = "list" /\ Len(t.l) > 0 /\ \A i \in 1..Len(t.l) : t.l[i].t = "ctor"

\* the descriptor the last validation checked against
Checked == IF last.type.t = "ref" THEN heap[last.type.r] ELSE BareType(last.type)

\* the last validation failed at the native check: nothing was raised, the
\* validator was not invoked, and the result is the failure message in
\* silent mode and false, with one message emitted, otherwise
RejectedByType ==
  /\ ~last.res.threw
  /\ ~last.res.called
  /\ IF last.silent THEN last.res = Result(Msg, 0) ELSE last.res = Result(False, 1)

\* C23: against a descriptor whose type is a native tag, a class or a union
\* of these, null is rejected by the native check whatever the required
\* flag, and undefined is the only value that passes without the native
\* check: it passes at once when the required flag is unset, and is rejected
\* like null when the flag is set and the type is a single tag or class;
\* every other value is rejected by the native check or passes it and goes
\* on to the validator, if there is one
C23_OnlyUndefinedIsAbsent ==
  (IsValidation /\ IsTagged(Checked.type))
  => /\ last.value = Null => RejectedByType
     /\ (last.value = Undefined /\ ~Checked.required) => last.res = Result(True, 0)
     /\ (last.value = Undefined /\ Checked.required /\ Checked.type.t = "ctor")
        => RejectedByType
     /\ last.value \notin {Null, Undefined}
        => \/ RejectedByType
           \/ /\ NativeStage(heap, Checked, last.value).ret = True
              /\ last.res.called = (Checked.validator.f # "none")

\* C23 witness: null was validated in silent mode against a descriptor that
\* is not required and whose type is a union, and was rejected
C23_Witness ==
  /\ IsValidation
  /\ last.type.t = "ref"
  /\ ~Checked.required
  /\ Checked.type.t = "list"
  /\ last.value = Null
  /\ last.silent
  /\ last.res.ret = Msg

\* the last call was validateType itself
CalledValidateType == last.op = "validateType"

\* C24: a silent validateType call hands no message to the sink and, when
\* it returns, returns true or a string; a loud call hands at most one
\* message to the sink and, when it emitted one, returns a falsy value
C24_DiagnosticsAreCaptured ==
  CalledValidateType
  => IF last.silent
     THEN /\ last.res.out = 0
          /\ ~last.res.threw => (last.res.ret = True \/ last.res.ret.k = "string")
     ELSE /\ last.res.out <= 1
          /\ last.res.out = 1 => (~last.res.threw /\ ~Truthy(last.res.ret))

\* an accessor extension derived from a descriptor was read
ReadDerived ==
  /\ last.op = "readExtension"
  /\ registry[last.name].parent.t = "ref"

\* the heap with the parent of the extension `name` put back as it was when
\* the extension was registered
AtRegistration(name) ==
  [heap EXCEPT ![registry[name].parent.r] = registry[name].parentAt]

\* the descriptor read from a derived extension has the type, required flag
\* and default the parent had at registration, where the parent defined them
InheritsFrom(d, parent) ==
  /\ parent.type.t \notin {"none", "undefined"} => d.type = parent.type
  /\ parent.required => d.required
  /\ DefinedDefault(parent.default) => d.default = parent.default

\* C25: a descriptor read from an extension derived from a parent has what
\* the parent had when the extension was registered, and validates every
\* value as it would if the parent had not been changed since
C25_ExtensionFixedAtRegistration ==
  ReadDerived
  => /\ InheritsFrom(heap[last.returned], registry[last.name].parentAt)
     /\ \A v \in ProbeValues \cup {Sym} :
          validateType(heap, Ref(last.returned), v, TRUE)
            = validateType(AtRegistration(last.name), Ref(last.returned), v, TRUE)

\* extend was called with a list
ExtendedList == last.op = "extend" /\ last.props.isArray

\* the element at place i of the list cannot be defined: its name was
\* defined before the call or is the name of an earlier element
Clashes(i) ==
  \/ last.props.items[i].name \in BuiltinNames \cup DOMAIN last.before
  \/ \E j \in 1..(i - 1) : last.props.items[j].name = last.props.items[i].name

\* the place of the first element that cannot be defined, or the length of
\* the list plus one
FirstClash ==
  LET n == Len(last.props.items)
  IN IF \E i \in 1..n : Clashes(i)
     THEN CHOOSE i \in 1..n : Clashes(i) /\ \A j \in 1..(i - 1) : ~Clashes(j)
     ELSE n + 1

\* the element at place i is registered as extend was given it
Registered(i) ==
  LET item == last.props.items[i]
  IN /\ item.name \in DOMAIN registry
     /\ registry[item.name].getter = item.getter
     /\ registry[item.name].parent = item.type

\* C26: extend applied to a list defines every element when no name is
\* defined already, and when it raises because a name is defined already the
\* registry is as it was before the call
C26_ListExtendIsAtomic ==
  ExtendedList
  => IF last.threw
     THEN registry = last.before
     ELSE /\ \A i \in 1..Len(last.props.items) : Registered(i)
          /\ DOMAIN registry =
               DOMAIN last.before
                 \cup {last.props.items[i].name : i \in 1..Len(last.props.items)}

\* C26 (amended): extend applied to a list defines the elements one by one
\* in list order; it raises exactly when some element's name was defined
\* before the call or earlier in the list, and then the elements before the
\* first such element stay defined as given, that element and the ones after
\* it are not defined by the call, and what was defined before the call is
\* left as it was
C26_ListExtendStopsAtFirstClash ==
  ExtendedList
  => /\ last.threw = (FirstClash <= Len(last.props.items))
     /\ \A i \in 1..(FirstClash - 1) : Registered(i)
     /\ DOMAIN registry =
          DOMAIN last.before \cup {last.props.items[i].name : i \in 1..(FirstClash - 1)}
     /\ \A n \in DOMAIN last.before : registry[n] = last.before[n]

\* C26 witness: extend was called with a list of three elements whose third
\* name repeats the first with another definition; it raised, and the first
\* two elements are defined as the list gave them
C26_Witness ==
  /\ ExtendedList
  /\ Len(last.props.items) = 3
  /\ last.before = <<>>
  /\ last.props.items[3].name = last.props.items[1].name
  /\ last.props.items[3].getter # last.props.items[1].getter
  /\ last.threw
  /\ DOMAIN registry = {last.props.items[1].name, last.props.items[2].name}
  /\ Registered(1)
  /\ Registered(2)

====
